---- MODULE Spec2Model ----
(***************************************************************************)
(* A model of src/main.py: the RK4 gravity simulator with two suns, a grid *)
(* of ordinary bodies, the merge resolver, the trail grid (imgarr/colarr)  *)
(* and the keyboard commands handled at the end of every tick.             *)
(*                                                                         *)
(* Numbers.  The program computes in binary64 floats; the model computes   *)
(* in fixed point.  Positions and radii are integers in units of 1/PF      *)
(* pixel, velocities and accelerations are integers in units of 1/VF pixel *)
(* per tick, masses are integers in units of the mass Planet.__init__      *)
(* gives a body (radius 1.5).  Every product and quotient of the source is *)
(* computed in the order of the source and rounded to an integer.  dt is a *)
(* power of two and is kept as the Python value it is: an int or a float   *)
(* with its binary64 exponent.                                             *)
(***************************************************************************)
EXTENDS Integers, Sequences, FiniteSets

VARIABLES
    planets,     \* the global list `planets`: a sequence of Planet records
    imgarr,      \* imgarr[iy][ix]: tick of the last merge recorded in a cell
    colarr,      \* colarr[iy][ix]: None or the colour recorded with it
    tick,        \* main's tick counter
    dt,          \* main's dt: [kind, e], the value 2^e as a Python number
    pc,          \* where main's loop is
    before,      \* history: `planets` as it was when the tick's integration began
    reads,       \* history: per body, the source positions its force evaluations read
    tests,       \* history: the touch tests of the tick's resolve pass, in order
    cmd,         \* history: the last speed command and dt before the last speed-up
    probe,       \* the last stand-alone evaluation of Planet.acceleration
    display,     \* "open" until pygame.quit() closes it
    other,       \* the list of a second run, for comparing two runs
    bent         \* the body whose state the second run was started with changed, or 0

vars ==
    <<planets, imgarr, colarr, tick, dt, pc, display, before, reads, tests, cmd,
      probe, other, bent>>

----
\* Bounds of the model.

\* src/main.py:52 sets MX = MY = 100 (40401 bodies); the model seeds a smaller grid.
MX == 1
MY == MX
\* Ticks explored by the full simulation.
MaxTick == 8
\* dt stays within 2^-MaxHalvings .. 2^MaxExp in the full simulation.
MaxExp == 3
MaxHalvings == 0
\* The world the fixed-point arithmetic covers: |x|, |y| <= PosCap (1/PF pixel),
\* |vx|, |vy| and every acceleration component <= VelCap (1/VF pixel per tick).
PosCap == 16000
VelCap == 100000

----
\* Program constants (src/main.py:48-85) and the units of the fixed point.

WIDTH == 900
HEIGHT == 600
WIDTHD2 == WIDTH \div 2
HEIGHTD2 == HEIGHT \div 2
\* SCALE = 0.01
SCALEINV == 100
GRAVITYSTRENGTH == 10000
IDX == 200
IVX == 15
IMM == 500
W == 2*MX + 1
H == 2*MY + 1

PF == 10
VF == SCALEINV
VP == VF \div PF
\* pi as 355/113
PiNum == 355
PiDen == 113
\* DENSITY = 0.001
DENSITYINV == 1000
\* _r = 1.5, in position units
UnitRadius == (3 * PF) \div 2
\* millionths
MassDen == DENSITYINV * DENSITYINV
\* The mass unit: DENSITY*4*pi*1.5^3/3, in millionths
UnitMass == (4 * PiNum * 3375) \div (3 * PiDen)
\* GRAVITYSTRENGTH * UnitMass^2 in velocity units times square position units:
\* 10^4 * (UnitMass/10^6)^2 * VF * PF^2
UnitCoupling ==
    (UnitMass * UnitMass)
        \div (MassDen \div ((GRAVITYSTRENGTH * VF * PF * PF) \div MassDen))
STATICSUN == FALSE
\* the largest integer the arithmetic may form
MaxInt == (2^30 - 1) * 2 + 1
\* binary64: the largest and the smallest power of two that is a float
FloatMaxExp == 1023
FloatMinExp == -1074

----
\* Arithmetic.

Abs(a) == IF a < 0 THEN -a ELSE a

\* u + v for two numbers held as <<quotient, remainder>> by c
AddQR(u, v, c) ==
    IF u[2] >= c - v[2] THEN <<u[1] + v[1] + 1, u[2] - (c - v[2])>>
    ELSE <<u[1] + v[1], u[2] + v[2]>>

\* a*b from h = a*(b \div 2), both as <<quotient, remainder>> by c
DoubleQR(a, b, c, h) ==
    IF b % 2 = 0 THEN AddQR(h, h, c)
    ELSE AddQR(AddQR(h, h, c), <<a \div c, a % c>>, c)

RECURSIVE MulDivQR(_, _, _)
\* <<floor(a*b/c), (a*b) mod c>> for a, b >= 0, c > 0, without forming a*b.
MulDivQR(a, b, c) ==
    IF b = 0 THEN <<0, 0>> ELSE DoubleQR(a, b, c, MulDivQR(a, b \div 2, c))

\* floor(a*b/c) for a, b >= 0, c > 0.
MulDiv(a, b, c) ==
    IF b = 0 \/ a <= MaxInt \div b THEN (a*b) \div c
    ELSE IF a < b THEN MulDivQR(b, a, c)[1] ELSE MulDivQR(a, b, c)[1]

\* a*b/c truncated toward zero, for c > 0.
SMulDiv(a, b, c) ==
    IF (a < 0) = (b < 0) THEN MulDiv(Abs(a), Abs(b), c)
    ELSE -MulDiv(Abs(a), Abs(b), c)

\* a/b rounded to the nearest integer, halves away from zero, for b > 0.
SDiv(a, b) ==
    IF a >= 0 THEN (2*a + b) \div (2*b) ELSE -((2*(-a) + b) \div (2*b))

RECURSIVE SqrtIter(_, _)
\* Newton's iteration down from x > 0 with x*x >= n: the largest s with s*s <= n
SqrtIter(n, x) ==
    IF (x + n \div x) \div 2 >= x THEN x ELSE SqrtIter(n, (x + n \div x) \div 2)

\* s or s + 1, whichever is nearer to the square root of n, s being its floor
Nearest(n, s) == IF n - s*s > s THEN s + 1 ELSE s

\* math.sqrt(dx*dx + dy*dy), rounded to the nearest integer
Sqrt(dx, dy) ==
    Nearest(dx * dx + dy * dy,
            IF dx = 0 /\ dy = 0 THEN 0
            ELSE SqrtIter(dx * dx + dy * dy, Abs(dx) + Abs(dy)))

RECURSIVE CbrtIter(_, _, _)
CbrtIter(n, lo, hi) ==
    IF lo >= hi THEN lo
    ELSE IF ((lo + hi + 1) \div 2) * ((lo + hi + 1) \div 2) * ((lo + hi + 1) \div 2) <= n
    THEN CbrtIter(n, (lo + hi + 1) \div 2, hi)
    ELSE CbrtIter(n, lo, (lo + hi + 1) \div 2 - 1)

\* v ** 0.3333, rounded down
Cbrt(n) == CbrtIter(n, 0, 1290)

----
\* The data model: State, Planet (src/main.py:90-133, 185-193).

State(x, y, vx, vy, px, py) ==
    [x |-> x, y |-> y, vx |-> vx, vy |-> vy, ix |-> px, iy |-> py]

\* DENSITY*4*pi*r^3/3 in mass units
setMassFromRadius(r) == (r * r * r) \div (UnitRadius * UnitRadius * UnitRadius)

\* (3*m/(DENSITY*4*pi)) ** 0.3333
setRadiusFromMass(m) == Cbrt(m * UnitRadius * UnitRadius * UnitRadius)

\* Planet.__init__ with a state given: _r = 1.5
Planet(state) ==
    [st |-> state, r |-> UnitRadius,
     m |-> setMassFromRadius(UnitRadius), merged |-> FALSE]

None == <<>>
RED == <<255, 0, 0>>
BLUE == <<0, 0, 255>>

\* The k-th body of the grid loop: x runs over -MX..MX, y over -MY..MY inside it.
GridPlanet(k) ==
    LET x == ((k - 1) \div H) - MX
        y == ((k - 1) % H) - MY
    IN  Planet(State(WIDTHD2 * PF, HEIGHTD2 * PF, x, y, x + MX, y + MY))

SunPlanet ==
    LET p == Planet(State(WIDTHD2 * PF, (HEIGHTD2 - IDX) * PF, -IVX * VF, 0, 0, 0))
        m == p.m * IMM
    IN  [p EXCEPT !.m = m, !.r = setRadiusFromMass(m)]

Sun2Planet ==
    LET p == Planet(State(WIDTHD2 * PF, (HEIGHTD2 + IDX) * PF, IVX * VF, 0, 0, 0))
        m == (p.m * IMM) \div 2
    IN  [p EXCEPT !.m = m, !.r = setRadiusFromMass(m)]

\* initialize(): the list of planets, and the two empty arrays
InitialPlanets == [k \in 1..(W * H) |-> GridPlanet(k)] \o <<SunPlanet, Sun2Planet>>
InitialImgarr == [iy \in 0..(H - 1) |-> [ix \in 0..(W - 1) |-> 0]]
InitialColarr == [iy \in 0..(H - 1) |-> [ix \in 0..(W - 1) |-> None]]

\* planets[-2:], as indices
LastTwo(ps) == <<Len(ps) - 1, Len(ps)>>

----
\* The force model: Planet.acceleration (src/main.py:137-153).

\* 1e-10 square pixels is less than one square position unit
EPSILON == 0

\* line 142: ignore ourselves and merged planets
Ignored(ps, i, j) == j = i \/ ps[j].merged

\* line 148 with the test left out
AlwaysDirection(dr) == TRUE

\* line 148
HasDirection(dr) == dr # 0

\* line 149
AboveEpsilon(dsq) == dsq > EPSILON

\* The divisors of the divisions lines 149-152 evaluate
Divisors(dsq, dr) ==
    (IF HasDirection(dr) /\ AboveEpsilon(dsq) THEN {dsq} ELSE {})
    \cup (IF HasDirection(dr) THEN {dr} ELSE {})

\* line 149: G*m*M/dsq, in velocity units
Force(self, p, dsq) ==
    IF AboveEpsilon(dsq) THEN MulDiv(UnitCoupling * self.m, p.m, dsq) ELSE 0

\* The force is within the range the model covers
InRange(self, p, dsq) ==
    AboveEpsilon(dsq) => ((UnitCoupling * self.m) \div dsq) <= VelCap \div p.m

\* What one source p did to the sums ax, ay
Pulled(zd, ok, ax, ay, force, p, dsq, dr) ==
    [zd |-> zd, ok |-> ok, ax |-> ax, ay |-> ay, force |-> force, dsq |-> dsq, dr |-> dr,
     divs |-> Divisors(dsq, dr), x |-> p.st.x, y |-> p.st.y]

\* Lines 148-152 for one source p at displacement (dx, dy).  A zero among the
\* divisors is Python's ZeroDivisionError (zd); ok is FALSE when the force
\* leaves the range the model covers.
PullAlong(p, dx, dy, dsq, dr, inRange, force) ==
    IF 0 \in Divisors(dsq, dr) THEN Pulled(TRUE, TRUE, 0, 0, 0, p, dsq, dr)
    ELSE IF ~HasDirection(dr) THEN Pulled(FALSE, TRUE, 0, 0, 0, p, dsq, dr)
    ELSE IF ~inRange \/ force > VelCap THEN Pulled(FALSE, FALSE, 0, 0, 0, p, dsq, dr)
    ELSE Pulled(FALSE, TRUE, SMulDiv(force, dx, dr), SMulDiv(force, dy, dr), force,
                p, dsq, dr)

\* Lines 144-147 for one source p with the displacement (dx, dy) to it
PullOver(self, p, dx, dy) ==
    PullAlong(p, dx, dy, dx * dx + dy * dy, Sqrt(dx, dy),
              InRange(self, p, dx * dx + dy * dy), Force(self, p, dx * dx + dy * dy))

\* Lines 144-152 for one source p
Pull(self, p, state) == PullOver(self, p, p.st.x - state.x, p.st.y - state.y)

\* The sources body i feels: the bodies of planets[-2:] that line 142 lets through
SourcesOf(ps, i) == SelectSeq(LastTwo(ps), LAMBDA j : ~Ignored(ps, i, j))

\* Lines 139-153 over the sources src: (ax, ay), with the pulls summed
Summed(src, pulls) ==
    LET ax == IF Len(src) = 0 THEN 0
              ELSE IF Len(src) = 1 THEN pulls[1].ax ELSE pulls[1].ax + pulls[2].ax
        ay == IF Len(src) = 0 THEN 0
              ELSE IF Len(src) = 1 THEN pulls[1].ay ELSE pulls[1].ay + pulls[2].ay
        zd == \E n \in 1..Len(src) : pulls[n].zd
        ok == /\ \A n \in 1..Len(src) : pulls[n].ok
              /\ Abs(ax) <= VelCap /\ Abs(ay) <= VelCap
    IN  [ax |-> IF ok /\ ~zd THEN ax ELSE 0, ay |-> IF ok /\ ~zd THEN ay ELSE 0,
         ok |-> ok, zd |-> zd, src |-> src, pulls |-> pulls,
         seen |-> {<<src[n], pulls[n].x, pulls[n].y>> : n \in 1..Len(src)}]

\* The loop of lines 141-152 over the sources src
Pulls(ps, i, src, state) ==
    IF Len(src) = 0 THEN <<>>
    ELSE IF Len(src) = 1 THEN <<Pull(ps[i], ps[src[1]], state)>>
    ELSE <<Pull(ps[i], ps[src[1]], state), Pull(ps[i], ps[src[2]], state)>>

\* acceleration(self, state, unused_t)
acceleration(ps, i, state) ==
    Summed(SourcesOf(ps, i), Pulls(ps, i, SourcesOf(ps, i), state))

----
\* The RK4 integrator (src/main.py:155-183).  dt is dtn/dtd.

Derivative(dx, dy, dvx, dvy, a) ==
    [dx |-> dx, dy |-> dy, dvx |-> dvx, dvy |-> dvy,
     ok |-> a.ok, zd |-> a.zd, seen |-> a.seen]

OutOfWorld == [ax |-> 0, ay |-> 0, ok |-> FALSE, zd |-> FALSE, seen |-> {}]

InWorld(state) ==
    /\ Abs(state.x) <= PosCap /\ Abs(state.y) <= PosCap
    /\ Abs(state.vx) <= VelCap /\ Abs(state.vy) <= VelCap

\* The derivative at state, a being the acceleration there
DerivativeAt(state, a) == Derivative(state.vx, state.vy, a.ax, a.ay, a)

initialDerivative(ps, i, state) == DerivativeAt(state, acceleration(ps, i, state))

\* Lines 162-166: the state one step of dtn/dtd along derivative
Advanced(initialState, derivative, dtn, dtd) ==
    [x  |-> initialState.x + SDiv(derivative.dx * dtn, dtd * VP),
     y  |-> initialState.y + SDiv(derivative.dy * dtn, dtd * VP),
     vx |-> initialState.vx + SDiv(derivative.dvx * dtn, dtd),
     vy |-> initialState.vy + SDiv(derivative.dvy * dtn, dtd)]

\* Lines 167-168 at the advanced state
DerivativeFrom(ps, i, state) ==
    IF ~InWorld(state) THEN Derivative(0, 0, 0, 0, OutOfWorld)
    ELSE DerivativeAt(state, acceleration(ps, i, state))

nextDerivative(ps, i, initialState, derivative, dtn, dtd) ==
    IF ~derivative.ok \/ derivative.zd
    THEN Derivative(0, 0, 0, 0, derivative)
    ELSE DerivativeFrom(ps, i, Advanced(initialState, derivative, dtn, dtd))

\* Lines 176-183: the four derivatives a, b, c, d combined into the new _st
Combined(st, dtn, dtd, a, b, c, d) ==
    LET dxdt6  == a.dx + 2 * (b.dx + c.dx) + d.dx
        dydt6  == a.dy + 2 * (b.dy + c.dy) + d.dy
        dvxdt6 == a.dvx + 2 * (b.dvx + c.dvx) + d.dvx
        dvydt6 == a.dvy + 2 * (b.dvy + c.dvy) + d.dvy
        new == [st EXCEPT !.x  = @ + SDiv(dxdt6 * dtn, 6 * dtd * VP),
                          !.y  = @ + SDiv(dydt6 * dtn, 6 * dtd * VP),
                          !.vx = @ + SDiv(dvxdt6 * dtn, 6 * dtd),
                          !.vy = @ + SDiv(dvydt6 * dtn, 6 * dtd)]
        zd == a.zd \/ b.zd \/ c.zd \/ d.zd
        ok == a.ok /\ b.ok /\ c.ok /\ d.ok
        seen == a.seen \cup b.seen \cup c.seen \cup d.seen
    IN  IF zd THEN [st |-> st, ok |-> TRUE, zd |-> TRUE, seen |-> seen]
        ELSE IF ~ok \/ ~InWorld(new)
        THEN [st |-> st, ok |-> FALSE, zd |-> FALSE, seen |-> seen]
        ELSE [st |-> new, ok |-> TRUE, zd |-> FALSE, seen |-> seen]

\* line 175, with a, b, c computed
updateFromC(ps, i, dtn, dtd, a, b, c) ==
    Combined(ps[i].st, dtn, dtd, a, b, c,
             nextDerivative(ps, i, ps[i].st, c, dtn, dtd))

\* line 174, with a, b computed
updateFromB(ps, i, dtn, dtd, a, b) ==
    updateFromC(ps, i, dtn, dtd, a, b,
                nextDerivative(ps, i, ps[i].st, b, dtn, 2 * dtd))

\* line 173, with a computed
updateFromA(ps, i, dtn, dtd, a) ==
    updateFromB(ps, i, dtn, dtd, a,
                nextDerivative(ps, i, ps[i].st, a, dtn, 2 * dtd))

\* updatePlanet(self, t, dt): the new _st of body i, computed against ps as it is
updatePlanet(ps, i, dtn, dtd) ==
    updateFromA(ps, i, dtn, dtd, initialDerivative(ps, i, ps[i].st))

\* planetsTouch(p1, p2), src/main.py:195-200
planetsTouch(p1, p2) ==
    Sqrt(p1.st.x - p2.st.x, p1.st.y - p2.st.y) <= p1.r + p2.r

----
\* One tick of main's loop (src/main.py:280-373).

\* line 305 without the test of _merged
FrozenSunsOnly(ps, i) ==
    STATICSUN /\ (i = Len(ps) - 1 \/ i = Len(ps))

\* line 305: the bodies the integration loop skips
Frozen(ps, i) ==
    ps[i].merged \/ (STATICSUN /\ (i = Len(ps) - 1 \/ i = Len(ps)))

RECURSIVE IntegrateFrom(_, _, _, _, _)
\* Lines 306-309 for body i, u being what updatePlanet computed for it: the
\* list is updated in place, and the loop goes on with body i + 1.
IntegrateWith(ps, i, dtn, dtd, log, u) ==
    IF u.zd \/ ~u.ok THEN [ps |-> ps, ok |-> u.ok, zd |-> u.zd, reads |-> log]
    ELSE IntegrateFrom([ps EXCEPT ![i].st = u.st], i + 1, dtn, dtd,
                       Append(log, [body |-> i, seen |-> u.seen]))

\* Lines 304-309 from body i on: the list is updated in place, body by body.
\* log gets, per integrated body, the source positions its evaluations read.
IntegrateFrom(ps, i, dtn, dtd, log) ==
    IF i > Len(ps) THEN [ps |-> ps, ok |-> TRUE, zd |-> FALSE, reads |-> log]
    ELSE IF Frozen(ps, i) THEN IntegrateFrom(ps, i + 1, dtn, dtd, log)
    ELSE IntegrateWith(ps, i, dtn, dtd, log, updatePlanet(ps, i, dtn, dtd))

\* line 320 with the comparison turned round
Heavier(p1, p2) == p1.m > p2.m

\* line 320: p1 is lighter than p2, so the two names are swapped
Lighter(p1, p2) == p1.m < p2.m

\* line 324: the colour recorded for a merge of winner w and loser l
MergeColour(ps, w, l) == IF Len(ps) \in {w, l} THEN RED ELSE BLUE

\* line 317 without the test of p2._merged
SkippedSelfOnly(ps, p1, p2) == p1 = p2

\* line 317: the bodies of planets[-2:] the inner loop passes over
Skipped(ps, p1, p2) == p1 = p2 \/ ps[p2].merged

\* What one touch test did: the two names, the two bodies before and after it,
\* and what the trail cell of the loser holds after it.
TestRecord(R, S, p1, p2, touch, w, l) ==
    [p1 |-> p1, p2 |-> p2, touch |-> touch, winner |-> w, loser |-> l,
     pre1 |-> R.ps[p1], pre2 |-> R.ps[p2], post1 |-> S.ps[p1], post2 |-> S.ps[p2],
     cellTick |-> IF touch THEN S.img[R.ps[l].st.iy][R.ps[l].st.ix] ELSE 0,
     cellCol |-> IF touch THEN S.col[R.ps[l].st.iy][R.ps[l].st.ix] ELSE None]

\* Lines 319-324: the merge of the touching pair named p1, p2
Merge(R, p1, p2, tk) ==
    LET swap == Lighter(R.ps[p1], R.ps[p2])
        w == IF swap THEN p2 ELSE p1
        l == IF swap THEN p1 ELSE p2
        iy == R.ps[l].st.iy
        ix == R.ps[l].st.ix
    IN  [ps |-> [R.ps EXCEPT ![l].merged = TRUE],
         img |-> [R.img EXCEPT ![iy][ix] = tk],
         col |-> [R.col EXCEPT ![iy][ix] = MergeColour(R.ps, w, l)],
         tests |-> R.tests, w |-> w, l |-> l]

\* R with the test record of p1, p2 appended
Logged(R, S, p1, p2, touch) ==
    [ps |-> S.ps, img |-> S.img, col |-> S.col,
     tests |-> Append(R.tests, TestRecord(R, S, p1, p2, touch, S.w, S.l))]

RECURSIVE ResolveInner(_, _, _, _)
\* Lines 316-327 for the name p1 and the n-th body of planets[-2:]; a swap at
\* line 321 rebinds p1 for the rest of the inner loop.
ResolveInner(R, p1, n, tk) ==
    IF n > 2 THEN R
    ELSE
    LET p2 == LastTwo(R.ps)[n]
    IN  IF Skipped(R.ps, p1, p2) THEN ResolveInner(R, p1, n + 1, tk)
        ELSE IF planetsTouch(R.ps[p1], R.ps[p2])
        THEN LET S == Merge(R, p1, p2, tk)
             IN  ResolveInner(Logged(R, S, p1, p2, TRUE), S.w, n + 1, tk)
        ELSE ResolveInner(
                 Logged(R, [ps |-> R.ps, img |-> R.img, col |-> R.col, w |-> 0, l |-> 0],
                        p1, p2, FALSE),
                 p1, n + 1, tk)

RECURSIVE ResolveFrom(_, _, _)
\* Lines 313-315 from body i on
ResolveFrom(R, i, tk) ==
    IF i > Len(R.ps) THEN R
    ELSE IF R.ps[i].merged THEN ResolveFrom(R, i + 1, tk)
    ELSE ResolveFrom(ResolveInner(R, i, 1, tk), i + 1, tk)

\* dt as the fraction DtNum/DtDen
DtNum(d) == IF d.e >= 0 THEN 2^(d.e) ELSE 1
DtDen(d) == IF d.e >= 0 THEN 1 ELSE 2^(-d.e)

\* line 282, t += dt with t a float: an int too large for a float raises OverflowError
TimeAdvanceRaises(d) == d.kind = "int" /\ d.e > FloatMaxExp

\* line 369, dt *= 2
SpeedUp(d) ==
    IF d.kind = "int" THEN [d EXCEPT !.e = @ + 1]
    ELSE IF d.kind = "float"
    THEN (IF d.e = FloatMaxExp THEN [kind |-> "inf", e |-> 0] ELSE [d EXCEPT !.e = @ + 1])
    ELSE d

\* line 371, dt /= 2: true division, the result is a float
SpeedDown(d) ==
    IF d.kind = "int" THEN [kind |-> "float", e |-> d.e - 1]
    ELSE IF d.kind = "float"
    THEN (IF d.e = FloatMinExp THEN [kind |-> "zero", e |-> 0] ELSE [d EXCEPT !.e = @ - 1])
    ELSE d

\* lines 368-371
SpeedCommand(d, speed) ==
    IF speed = "up" THEN SpeedUp(d)
    ELSE IF speed = "down" THEN SpeedDown(d)
    ELSE d

\* The number dt is: 2 == 2.0 in Python
Value(d) == IF d.kind \in {"int", "float"} THEN <<"finite", d.e>> ELSE <<d.kind, 0>>

\* History of the speed commands.  last is the last one applied; back is TRUE
\* when the last one was a speed-down and the one before it a speed-up, and
\* orig is then dt as it was before that speed-up.
NoteSpeed(c, d, speed) ==
    IF speed = "up" THEN [last |-> "up", orig |-> d, back |-> FALSE]
    ELSE IF speed = "down"
    THEN (IF c.last = "up" THEN [last |-> "down", orig |-> c.orig, back |-> TRUE]
          ELSE [last |-> "down", orig |-> SpeedDown(d), back |-> FALSE])
    ELSE c

Speeds == {"none", "up", "down"}

\* The full simulation keeps dt within its bounds
WithinSpeedBounds(d, speed) ==
    /\ speed = "up" => d.e < MaxExp
    /\ speed = "down" => d.e > -MaxHalvings

InitialDt == [kind |-> "int", e |-> 0]
NoCommand == [last |-> "none", orig |-> InitialDt, back |-> FALSE]
NoProbe ==
    [ax |-> 0, ay |-> 0, ok |-> TRUE, zd |-> FALSE, src |-> <<>>, pulls |-> <<>>,
     seen |-> {}]

----
\* The full simulation.

Init ==
    /\ planets = InitialPlanets
    /\ imgarr = InitialImgarr
    /\ colarr = InitialColarr
    /\ tick = 0
    /\ dt = InitialDt
    /\ pc = "integrate"
    /\ display = "open"
    /\ before = InitialPlanets
    /\ reads = <<>>
    /\ tests = <<>>
    /\ cmd = NoCommand
    /\ probe = NoProbe
    /\ other = InitialPlanets
    /\ bent = 0

\* The list after the integration loop; an exception or a body leaving the
\* world the model covers ends the run.
Integrated(r) ==
    /\ planets' = r.ps
    /\ reads' = r.reads
    /\ pc' = IF r.zd THEN "raised" ELSE IF ~r.ok THEN "outside" ELSE "resolve"

\* Lines 281-309: the tick begins and every body that is not frozen is integrated.
Integrate ==
    /\ pc = "integrate"
    /\ display = "open"
    /\ tick < MaxTick
    /\ ~TimeAdvanceRaises(dt)
    /\ Integrated(IntegrateFrom(planets, 1, DtNum(dt), DtDen(dt), <<>>))
    /\ tick' = tick + 1
    /\ before' = planets
    /\ tests' = <<>>
    /\ UNCHANGED <<imgarr, colarr, dt, display, cmd, probe, other, bent>>

\* The list and the trail arrays after the resolve pass
Resolved(R) ==
    /\ planets' = R.ps
    /\ imgarr' = R.img
    /\ colarr' = R.col
    /\ tests' = R.tests

\* Lines 313-341: the resolve pass.
Resolve ==
    /\ pc = "resolve"
    /\ Resolved(ResolveFrom([ps |-> planets, img |-> imgarr, col |-> colarr,
                             tests |-> <<>>], 1, tick))
    /\ pc' = "keys"
    /\ UNCHANGED <<tick, dt, display, before, reads, cmd, probe, other, bent>>

\* Line 348: ESC leaves the loop.
Escape ==
    /\ pc = "keys"
    /\ pc' = "stopped"
    /\ UNCHANGED <<planets, imgarr, colarr, tick, dt, display, before, reads, tests,
                   cmd, probe, other, bent>>

\* Lines 359-363: q saves the image and closes pygame; the loop goes on.
Quit ==
    /\ pc = "keys"
    /\ display' = "closed"
    /\ pc' = "reset"
    /\ UNCHANGED <<planets, imgarr, colarr, tick, dt, before, reads, tests,
                   cmd, probe, other, bent>>

\* Lines 348-359 with neither ESC nor q pressed.
NoQuit ==
    /\ pc = "keys"
    /\ pc' = "reset"
    /\ UNCHANGED <<planets, imgarr, colarr, tick, dt, display, before, reads, tests,
                   cmd, probe, other, bent>>

\* initialize() keeping the trail arrays it was given
initializeKeepTrail ==
    /\ planets' = InitialPlanets
    /\ UNCHANGED <<imgarr, colarr>>

\* initialize(), lines 202-229: a new list and two new arrays
initialize ==
    /\ planets' = InitialPlanets
    /\ imgarr' = InitialImgarr
    /\ colarr' = InitialColarr

\* Lines 365-366: r calls initialize().
Reset ==
    /\ pc = "reset"
    /\ initialize
    /\ pc' = "speed"
    /\ UNCHANGED <<tick, dt, display, before, reads, tests, cmd, probe, other, bent>>

\* Line 365 with r not pressed.
NoReset ==
    /\ pc = "reset"
    /\ pc' = "speed"
    /\ UNCHANGED <<planets, imgarr, colarr, tick, dt, display, before, reads, tests,
                   cmd, probe, other, bent>>

\* Lines 368-371: UP doubles dt, else DOWN halves it.
SpeedKeys ==
    /\ pc = "speed"
    /\ \E speed \in Speeds :
        /\ WithinSpeedBounds(dt, speed)
        /\ dt' = SpeedCommand(dt, speed)
    /\ pc' = "integrate"
    /\ UNCHANGED <<planets, imgarr, colarr, tick, display, before, reads, tests,
                   cmd, probe, other, bent>>

\* After pygame.quit() the next pygame.display.flip() (line 283) raises.
FlipRaises ==
    /\ pc = "integrate"
    /\ display = "closed"
    /\ tick' = tick + 1
    /\ pc' = "raised"
    /\ UNCHANGED <<planets, imgarr, colarr, dt, display, before, reads, tests,
                   cmd, probe, other, bent>>

Next ==
    \/ Integrate
    \/ Resolve
    \/ Escape
    \/ Quit
    \/ NoQuit
    \/ Reset
    \/ NoReset
    \/ SpeedKeys
    \/ FlipRaises

Spec == Init /\ [][Next]_vars

----
\* The speed control alone (src/main.py:282, 368-371), in a run that holds r:
\* every tick ends with initialize(), so the list the next tick draws and
\* integrates is the initial one whatever dt is.  tick is not counted here.

\* Lines 281-282: t += dt.
Advance ==
    /\ pc = "integrate"
    /\ pc' = IF TimeAdvanceRaises(dt) THEN "raised" ELSE "speed"
    /\ UNCHANGED <<planets, imgarr, colarr, tick, dt, display, before, reads, tests,
                   cmd, probe, other, bent>>

\* Lines 368-371, with the history of the speed commands.
SpeedNoted ==
    /\ pc = "speed"
    /\ \E speed \in Speeds :
        /\ dt' = SpeedCommand(dt, speed)
        /\ cmd' = NoteSpeed(cmd, dt, speed)
    /\ pc' = "integrate"
    /\ UNCHANGED <<planets, imgarr, colarr, tick, display, before, reads, tests,
                   probe, other, bent>>

NextSpeed ==
    \/ Advance
    \/ SpeedNoted

SpecSpeed == Init /\ [][NextSpeed]_vars

----
\* Planet.acceleration alone (src/main.py:137-153), on candidate states at and
\* around the bodies of the list.

\* Candidate states are ProbeSpan steps of ProbeStep position units around a body.
ProbeSpan == 1
ProbeStep == 100

Offsets == {o * ProbeStep : o \in (-ProbeSpan)..ProbeSpan}

\* The list with the merged flags of planets[-2:] set to m1, m2
WithSunsMerged(ps, m1, m2) ==
    [ps EXCEPT ![Len(ps) - 1].merged = m1, ![Len(ps)].merged = m2]

InitAccel ==
    /\ \E m1 \in BOOLEAN, m2 \in BOOLEAN :
        planets = WithSunsMerged(InitialPlanets, m1, m2)
    /\ imgarr = InitialImgarr
    /\ colarr = InitialColarr
    /\ tick = 0
    /\ dt = InitialDt
    /\ pc = "integrate"
    /\ display = "open"
    /\ before = InitialPlanets
    /\ reads = <<>>
    /\ tests = <<>>
    /\ cmd = NoCommand
    /\ probe = NoProbe
    /\ other = InitialPlanets
    /\ bent = 0

\* body i evaluates its acceleration at a candidate state near body j
Probe ==
    /\ \E i \in 1..Len(planets), j \in 1..Len(planets), ox \in Offsets, oy \in Offsets :
        probe' = acceleration(planets, i,
                              [planets[i].st EXCEPT !.x = planets[j].st.x + ox,
                                                    !.y = planets[j].st.y + oy])
    /\ UNCHANGED <<planets, imgarr, colarr, tick, dt, pc, display, before, reads,
                   tests, cmd, other, bent>>

NextAccel == Probe

SpecAccel == InitAccel /\ [][NextAccel]_vars

----
\* Two runs of the loop side by side (src/main.py:280-371) under the same keys:
\* planets is the list of one run and other the list of a second run, which
\* starts from the list of initialize() with one ordinary body changed.

\* The speed key held at the end of tick 1, 2, ...; no other key is pressed
Script ==
    <<"down", "none", "none", "up", "up", "down", "none", "up", "down", "up", "up",
      "down", "up", "up", "down", "none">>

\* The key held at the end of tick tk
KeyAt(tk) == IF tk \in 1..Len(Script) THEN Script[tk] ELSE "none"

\* A changed body is moved, or has its velocity changed, by BendStep units
\* along one axis
BendStep == 150

Displacements ==
    {<<BendStep, 0>>, <<-BendStep, 0>>, <<0, BendStep>>, <<0, -BendStep>>}

Bends == {"position", "velocity", "merged"}

\* The bodies of the grid loop, lines 210-213
Ordinary == 1..(W * H)

\* The list ps with the _st or the _merged of body i changed
Bent(ps, i, what, d) ==
    IF what = "position"
    THEN [ps EXCEPT ![i].st.x = @ + d[1], ![i].st.y = @ + d[2]]
    ELSE IF what = "velocity"
    THEN [ps EXCEPT ![i].st.vx = @ + d[1], ![i].st.vy = @ + d[2]]
    ELSE [ps EXCEPT ![i].merged = ~@]

\* The second run starts with one ordinary body of its list changed.
Bend ==
    /\ pc = "integrate"
    /\ bent = 0
    /\ tick = 0
    /\ \E i \in Ordinary, what \in Bends, d \in Displacements :
        /\ other' = Bent(planets, i, what, d)
        /\ bent' = i
    /\ UNCHANGED <<planets, imgarr, colarr, tick, dt, pc, display, before, reads,
                   tests, cmd, probe>>

\* The two lists after the integration loop; when either run ends here both
\* lists are left as they were.
PairIntegrated(r, s) ==
    /\ planets' = IF r.ok /\ s.ok /\ ~r.zd /\ ~s.zd THEN r.ps ELSE planets
    /\ other' = IF r.ok /\ s.ok /\ ~r.zd /\ ~s.zd THEN s.ps ELSE other
    /\ reads' = r.reads
    /\ pc' = IF r.zd \/ s.zd THEN "raised"
             ELSE IF ~r.ok \/ ~s.ok THEN "outside" ELSE "resolve"

\* Lines 281-309 in both runs.
PairIntegrate ==
    /\ pc = "integrate"
    /\ tick <= Len(Script)
    /\ PairIntegrated(IntegrateFrom(planets, 1, DtNum(dt), DtDen(dt), <<>>),
                      IntegrateFrom(other, 1, DtNum(dt), DtDen(dt), <<>>))
    /\ tick' = tick + 1
    /\ before' = planets
    /\ tests' = <<>>
    /\ UNCHANGED <<imgarr, colarr, dt, display, cmd, probe, bent>>

\* The two lists after the resolve pass, and the trail of the first run
PairResolved(R, S) ==
    /\ planets' = R.ps
    /\ imgarr' = R.img
    /\ colarr' = R.col
    /\ tests' = R.tests
    /\ other' = S.ps

\* Lines 313-341 in both runs.
PairResolve ==
    /\ pc = "resolve"
    /\ PairResolved(ResolveFrom([ps |-> planets, img |-> imgarr, col |-> colarr,
                                 tests |-> <<>>], 1, tick),
                    ResolveFrom([ps |-> other, img |-> imgarr, col |-> colarr,
                                 tests |-> <<>>], 1, tick))
    /\ pc' = "keys"
    /\ UNCHANGED <<tick, dt, display, before, reads, cmd, probe, bent>>

\* Lines 347-371 with the key of the script held: dt is the same in both runs.
ScriptedKeys ==
    /\ pc = "keys"
    /\ dt' = SpeedCommand(dt, KeyAt(tick))
    /\ pc' = "integrate"
    /\ UNCHANGED <<planets, imgarr, colarr, tick, display, before, reads, tests,
                   cmd, probe, other, bent>>

NextPair ==
    \/ Bend
    \/ PairIntegrate
    \/ PairResolve
    \/ ScriptedKeys

SpecPair == Init /\ [][NextPair]_vars

----
\* Claims.

\* The body the grid loop seeded with cell (ix, iy): lines 211-214
GridBody(ix, iy) == ix * H + iy + 1

\* C1: in a run without a reset, a body that is merged stays merged and keeps
\* its position and velocity; the integration loop never integrates it, no
\* force evaluation reads it as a source, and the resolver never tests it,
\* neither as p1 nor as p2.
MergedStaysOut ==
    /\ [](\A k \in 1..Len(reads) :
            /\ ~before[reads[k].body].merged
            /\ \A s \in reads[k].seen : ~before[s[1]].merged)
    /\ [](\A k \in 1..Len(tests) : ~tests[k].pre1.merged /\ ~tests[k].pre2.merged)
    /\ [][(\E i \in 1..Len(planets) : planets[i].merged /\ planets'[i] # planets[i])
            => Reset]_vars

\* A tick has been integrated and resolved with a body merged before it began.
MergedBodySatOut ==
    /\ pc = "keys"
    /\ Len(reads) > 0
    /\ \E i \in 1..Len(planets) : before[i].merged /\ planets[i] = before[i]

EachPairResolvedOnce ==
    /\ \A k \in 1..Len(tests) : ~tests[k].pre1.merged /\ ~tests[k].pre2.merged
    /\ \A k \in 1..Len(tests), j \in 1..Len(tests) :
          (k # j /\ tests[k].touch /\ tests[j].touch) => tests[k].loser # tests[j].loser
    /\ pc = "keys" =>
          \A i \in 1..Len(planets), n \in 1..2 :
              LET j == LastTwo(planets)[n]
              IN  (i # j /\ ~planets[i].merged /\ ~planets[j].merged)
                      => ~planetsTouch(planets[i], planets[j])

\* A pass has ended in which one test found a touch and another did not.
PassWithMergeEnded ==
    /\ pc = "keys"
    /\ \E k \in 1..Len(tests) : tests[k].touch
    /\ \E k \in 1..Len(tests) : ~tests[k].touch

\* C4: two runs that start from states differing only in the position, the
\* velocity or the merged flag of one ordinary body agree, at the start of
\* every later tick, on the position, velocity and merged flag of every other
\* body.
OrdinaryBodiesDoNotInterfere ==
    pc = "integrate" =>
        \A k \in 1..Len(planets) :
            k # bent =>
                /\ planets[k].st = other[k].st
                /\ planets[k].merged = other[k].merged

\* C5: every force evaluation of a tick reads, for every other body, the
\* position that body had when the tick began.
ReadsPreviousTickOnly ==
    \A k \in 1..Len(reads) :
        \A s \in reads[k].seen :
            s[2] = before[s[1]].st.x /\ s[3] = before[s[1]].st.y

\* C6: every merge writes the tick and a category into the cell of the loser,
\* and the category is SUN_MERGE (red) exactly when the survivor is the last
\* body of the list.
SurvivorDecidesCategory ==
    \A k \in 1..Len(tests) :
        tests[k].touch =>
            /\ tests[k].cellTick = tick
            /\ tests[k].cellCol = (IF tests[k].winner = Len(planets) THEN RED ELSE BLUE)

\* C9: a cell of the trail holds a record only if the grid body seeded with
\* that cell is merged.
RecordOnlyForMergedGridBody ==
    \A iy \in 0..(H - 1), ix \in 0..(W - 1) :
        (imgarr[iy][ix] # 0 \/ colarr[iy][ix] # None) => planets[GridBody(ix, iy)].merged

\* C10: only a reset empties a cell of the trail, and a reset leaves every
\* cell empty and every body unmerged and keeps tick and dt.
TrailClearedOnlyByReset ==
    /\ [][(\E iy \in 0..(H - 1), ix \in 0..(W - 1) :
              \/ imgarr[iy][ix] # 0 /\ imgarr'[iy][ix] = 0
              \/ colarr[iy][ix] # None /\ colarr'[iy][ix] = None)
            => Reset]_vars
    /\ [][Reset =>
            /\ \A iy \in 0..(H - 1), ix \in 0..(W - 1) :
                  imgarr'[iy][ix] = 0 /\ colarr'[iy][ix] = None
            /\ \A i \in 1..Len(planets') : ~planets'[i].merged
            /\ tick' = tick
            /\ dt' = dt]_vars

\* A reset has just emptied a trail that the pass of the same tick wrote.
ResetAfterMerge ==
    /\ pc = "speed"
    /\ \E k \in 1..Len(tests) : tests[k].touch
    /\ \A iy \in 0..(H - 1), ix \in 0..(W - 1) :
          imgarr[iy][ix] = 0 /\ colarr[iy][ix] = None
    /\ \A i \in 1..Len(planets) : ~planets[i].merged

\* C7: a speed-up and then a speed-down, with no speed command between them,
\* leave dt equal to what it was before the two.
UpThenDownRestores == cmd.back => Value(dt) = Value(cmd.orig)

====
